---- MODULE Spec2Model ----
(***************************************************************************)
(* Model of packages/happy-cli/src/claude/utils/startHappyServer.ts: the   *)
(* per-session loopback MCP gateway exposing the change_title tool.        *)
(*                                                                         *)
(* Strings that are only concatenated (titles, response texts) are TLA+    *)
(* strings.  The URL is parsed and serialised, so it is a sequence of      *)
(* one-character strings.                                                  *)
(***************************************************************************)
EXTENDS Integers, Sequences, FiniteSets, TLC

\* ------------------------------------------------------------------ bounds
MaxRequests == 2

Requests == 1..MaxRequests

\* ------------------------------------------------------------------ inputs
\* Titles a caller may pass (z.string(): any string, the empty one included).
Titles == {"", "Refactor \"plan\""}

\* What hostname() may return on the machine.
Hostnames == {"myhost"}

\* Ports the OS may assign to listen(0, "127.0.0.1"): the ephemeral range.
Ports == {1024, 65535}

\* Values the session client's send may throw.
Thrown ==
    { [kind |-> "Error", message |-> "socket closed"],
      [kind |-> "string", message |-> ""] }

NoError == [kind |-> "none", message |-> ""]

\* An exception of the MCP SDK (constructors, connect, handleRequest).
InfraError == [kind |-> "Error", message |-> "transport failure"]

Null == [tag |-> "null"]

\* ------------------------------------------------------- pure functions
\* String(error), line 36: Error.prototype.toString for Error objects
\* ("Error" alone when the message is empty), the value itself for a thrown
\* string.
JsString(e) ==
    IF e.kind = "Error"
    THEN IF e.message = "" THEN "Error" ELSE "Error: " \o e.message
    ELSE e.message

\* `[${hostname()}] ${title}`, line 24.
PrefixedTitle(host, title) == "[" \o host \o "] " \o title

\* The message object handed to client.sendClaudeSessionMessage, lines 28-32.
\* leafUuid is randomUUID(): a value no claim reads, kept as a token.
SummaryMessage(host, title) ==
    [type |-> "summary", summary |-> PrefixedTitle(host, title), leafUuid |-> "uuid"]

\* Variant of ToolResult that ignores response.success.
ToolResultAlwaysSuccess(title, response) ==
    [content |-> << [type |-> "text",
                     text |-> "Successfully changed chat title to: \"" \o title \o "\""] >>,
     isError |-> FALSE]

\* The registered tool's mapping of handler's response, lines 61-81.
\* `response.error || 'Unknown error'`: the empty string is falsy.
ToolResult(title, response) ==
    IF response.success
    THEN [content |-> << [type |-> "text",
                          text |-> "Successfully changed chat title to: \"" \o title \o "\""] >>,
          isError |-> FALSE]
    ELSE [content |-> << [type |-> "text",
                          text |-> "Failed to change chat title: "
                                   \o (IF response.error = "" THEN "Unknown error"
                                       ELSE response.error)] >>,
          isError |-> TRUE]

DigitChar == <<"0", "1", "2", "3", "4", "5", "6", "7", "8", "9">>

RECURSIVE Decimal(_)
\* Decimal form of a non-negative integer, as `${addr.port}` produces it.
Decimal(n) ==
    IF n < 10 THEN << DigitChar[n + 1] >>
    ELSE Decimal(n \div 10) \o << DigitChar[(n % 10) + 1] >>

RECURSIVE ParseDecimal(_)
ParseDecimal(s) ==
    IF s = << >> THEN 0
    ELSE 10 * ParseDecimal(SubSeq(s, 1, Len(s) - 1))
         + (CHOOSE d \in 0..9 : DigitChar[d + 1] = s[Len(s)])

\* Variant of UrlTemplate that names the host instead of the loopback address.
UrlTemplateLocalhost(port) ==
    <<"h","t","t","p",":","/","/","l","o","c","a","l","h","o","s","t",":">>
        \o Decimal(port)

\* `http://127.0.0.1:${addr.port}`, line 110.
UrlTemplate(port) ==
    <<"h","t","t","p",":","/","/","1","2","7",".","0",".","0",".","1",":">>
        \o Decimal(port)

\* First index of character c in s at or after position from, Len(s)+1 if none.
IndexOf(s, c, from) ==
    IF \E i \in from..Len(s) : s[i] = c
    THEN CHOOSE i \in from..Len(s) : s[i] = c /\ \A j \in from..(i - 1) : s[j] # c
    ELSE Len(s) + 1

\* new URL(string) of node:url (WHATWG URL) for an http URL with an IPv4
\* host: scheme, host, port (a number re-serialised in decimal, dropped when
\* it is http's default port 80) and path (a special scheme's empty path
\* is "/").
URLParse(s) ==
    LET colon == IndexOf(s, ":", 1)
        rest == SubSeq(s, colon + 3, Len(s))
        slash == IndexOf(rest, "/", 1)
        authority == SubSeq(rest, 1, slash - 1)
        pcolon == IndexOf(authority, ":", 1)
        portStr == SubSeq(authority, pcolon + 1, Len(authority))
        path == SubSeq(rest, slash, Len(rest))
    IN [scheme |-> SubSeq(s, 1, colon - 1),
        host |-> SubSeq(authority, 1, pcolon - 1),
        port |-> IF portStr = << >> \/ ParseDecimal(portStr) = 80
                 THEN << >> ELSE Decimal(ParseDecimal(portStr)),
        path |-> IF path = << >> THEN <<"/">> ELSE path]

\* URL.prototype.toString(): the serialised href.
URLToString(u) ==
    u.scheme \o <<":", "/", "/">> \o u.host
        \o (IF u.port = << >> THEN << >> ELSE <<":">> \o u.port)
        \o u.path

\* -------------------------------------------------------------------- state
VARIABLES
    hostname,     \* what hostname() returns
    server,       \* the http.Server: [state, port]
    osPortHeld,   \* the OS holds a listening socket for the server
    startPc,      \* position of startHappyServer: "init", "awaitListen", "returned"
    startPromise, \* the promise startHappyServer returned: "none", "pending", "resolved", "rejected"
    listenCb,     \* the listen callback (lines 108-111) has run
    baseUrl,      \* value the inner promise resolved with (a URL), or Null
    handle,       \* the object startHappyServer resolved with, or Null
    stopped,      \* handle.stop() has been called
    uncaught,     \* an exception was raised outside any caller (uncaughtException)
    pc,           \* per request: position in the request callback
    args,         \* per request: [kind, title] the transport read from the request
    mcpOf,        \* per request: identity of the McpServer instance, 0 if none
    transportOf,  \* per request: identity of the transport instance, 0 if none
    connected,    \* per request: the <<mcp, transport>> pairs mcp.connect joined
    res,          \* per request: the ServerResponse [headersSent, status, body, writes]
    caught,       \* per request: the exception the request-level catch received
    escaped,      \* per request: an exception left the request callback
    response,     \* per request: what handler(title) returned, or Null
    toolResult,   \* per request: what the tool callback returned, or Null
    sent,         \* per request: messages passed to client.sendClaudeSessionMessage
    sendResult,   \* per request: how the call of sendClaudeSessionMessage ended
    delivery,     \* per request: "none", "inflight", "delivered", "failed"
    nextObj       \* object identities handed out so far (new McpServer / new transport)

startVars == <<server, osPortHeld, startPc, startPromise, listenCb, baseUrl, handle,
               stopped, uncaught>>
reqVars == <<pc, args, mcpOf, transportOf, connected, res, caught, escaped, nextObj>>
toolVars == <<response, toolResult, sent, sendResult, delivery>>
vars == <<hostname, startVars, reqVars, toolVars>>

NoArgs == [kind |-> "none", title |-> ""]
FreshRes == [headersSent |-> FALSE, status |-> 0, body |-> Null, writes |-> 0]

Init ==
    /\ hostname \in Hostnames
    /\ server = [state |-> "created", port |-> 0]
    /\ osPortHeld = FALSE
    /\ startPc = "init"
    /\ startPromise = "none"
    /\ listenCb = FALSE
    /\ baseUrl = Null
    /\ handle = Null
    /\ stopped = FALSE
    /\ uncaught = FALSE
    /\ pc = [r \in Requests |-> "idle"]
    /\ args = [r \in Requests |-> NoArgs]
    /\ mcpOf = [r \in Requests |-> 0]
    /\ transportOf = [r \in Requests |-> 0]
    /\ connected = [r \in Requests |-> {}]
    /\ res = [r \in Requests |-> FreshRes]
    /\ caught = [r \in Requests |-> NoError]
    /\ escaped = [r \in Requests |-> FALSE]
    /\ response = [r \in Requests |-> Null]
    /\ toolResult = [r \in Requests |-> Null]
    /\ sent = [r \in Requests |-> << >>]
    /\ sendResult = [r \in Requests |-> [how |-> "none", error |-> NoError]]
    /\ delivery = [r \in Requests |-> "none"]
    /\ nextObj = 0

\* ------------------------------------------------------ startHappyServer
\* Variant of StartCall that resolves the promise outside the listen callback.
StartCallResolvingAtOnce ==
    /\ startPc = "init"
    /\ startPc' = "awaitListen"
    /\ startPromise' = "pending"
    /\ server' = [server EXCEPT !.state = "binding"]
    /\ baseUrl' = URLParse(UrlTemplate(server.port))
    /\ UNCHANGED <<hostname, osPortHeld, listenCb, handle, stopped, uncaught,
                   reqVars, toolVars>>

\* Lines 19-108: the caller invokes startHappyServer; the server is created,
\* listen(0, "127.0.0.1", cb) is issued and the function awaits the promise.
StartCall ==
    /\ startPc = "init"
    /\ startPc' = "awaitListen"
    /\ startPromise' = "pending"
    /\ server' = [server EXCEPT !.state = "binding"]
    /\ UNCHANGED <<hostname, osPortHeld, listenCb, baseUrl, handle, stopped, uncaught,
                   reqVars, toolVars>>

\* The OS binds the socket to an ephemeral loopback port.
BindOk ==
    /\ server.state = "binding"
    /\ \E p \in Ports : server' = [state |-> "listening", port |-> p]
    /\ osPortHeld' = TRUE
    /\ UNCHANGED <<hostname, startPc, startPromise, listenCb, baseUrl, handle, stopped,
                   uncaught, reqVars, toolVars>>

\* The bind fails: the server emits 'error'.  No 'error' listener is
\* registered (lines 91-112) and the promise executor takes no reject
\* (line 107), so the event is raised as an uncaught exception and the
\* promise is left pending.
BindFail ==
    /\ server.state = "binding"
    /\ server' = [server EXCEPT !.state = "failed"]
    /\ uncaught' = TRUE
    /\ UNCHANGED <<hostname, osPortHeld, startPc, startPromise, listenCb, baseUrl, handle,
                   stopped, reqVars, toolVars>>

\* Lines 108-111: the listen callback reads server.address() and resolves
\* the inner promise with the URL.
ListenCallback ==
    /\ server.state = "listening"
    /\ ~listenCb
    /\ listenCb' = TRUE
    /\ baseUrl' = URLParse(UrlTemplate(server.port))
    /\ UNCHANGED <<hostname, server, osPortHeld, startPc, startPromise, handle, stopped,
                   uncaught, reqVars, toolVars>>

\* Lines 107, 114-123: the await resumes and the handle is returned.
StartReturn ==
    /\ startPc = "awaitListen"
    /\ baseUrl # Null
    /\ handle' = [url |-> URLToString(baseUrl), toolNames |-> <<"change_title">>]
    /\ startPc' = "returned"
    /\ startPromise' = "resolved"
    /\ UNCHANGED <<hostname, server, osPortHeld, listenCb, baseUrl, stopped, uncaught,
                   reqVars, toolVars>>

\* Variant of Stop that forgets server.close().
StopWithoutClose ==
    /\ handle # Null
    /\ stopped' = TRUE
    /\ UNCHANGED <<hostname, server, osPortHeld, startPc, startPromise, listenCb, baseUrl,
                   handle, uncaught, reqVars, toolVars>>

\* Lines 119-122: handle.stop() calls server.close().  close() without a
\* callback raises nothing, also on a server that is already closed.
Stop ==
    /\ handle # Null
    /\ stopped' = TRUE
    /\ server' = [server EXCEPT !.state = "closed"]
    /\ osPortHeld' = FALSE
    /\ UNCHANGED <<hostname, startPc, startPromise, listenCb, baseUrl, handle, uncaught,
                   reqVars, toolVars>>

\* --------------------------------------------------- the request callback
\* Each action below is one run-to-completion step of the event loop: the
\* code from one suspension point (await) to the next.

\* Variant of ArgsTitle reading a title kept in state shared by all requests.
ArgsTitleOfAnyCall(r) ==
    LET others == {q \in Requests : q # r /\ args[q].kind = "call"}
    IN IF others = {} THEN args[r].title
       ELSE args[CHOOSE q \in others : TRUE].title

\* The title the tool callback and handler see: args.title of their own
\* invocation (a closure parameter, lines 23 and 57).
ArgsTitle(r) == args[r].title

\* res.writeHead(status).end() of node:http on response cur: throws
\* ERR_HTTP_HEADERS_SENT when the headers were sent, else sends the status
\* and an empty body.
WriteHeadEnd(r, cur, status) ==
    IF cur.headersSent
    THEN /\ escaped' = [escaped EXCEPT ![r] = TRUE]
         /\ res' = [res EXCEPT ![r] = [cur EXCEPT !.writes = @ + 1]]
    ELSE /\ escaped' = escaped
         /\ res' = [res EXCEPT ![r] = [headersSent |-> TRUE, status |-> status,
                                       body |-> << >>, writes |-> cur.writes + 1]]

\* Variant of CatchBlock without the headersSent guard.
CatchBlockUnguarded(r, cur) == WriteHeadEnd(r, cur, 500)

\* Lines 99-104: the request-level catch, entered with the response in
\* state cur: answers 500 only when no header has been sent.
CatchBlock(r, cur) ==
    IF ~cur.headersSent
    THEN WriteHeadEnd(r, cur, 500)
    ELSE /\ res' = [res EXCEPT ![r] = cur]
         /\ escaped' = escaped

\* A request can reach the callback once the server listens; the listen
\* callback and the continuation of startHappyServer run before the event
\* loop delivers any request.  Requests are numbered in arrival order.
Arrives(r) ==
    /\ server.state = "listening"
    /\ startPc = "returned"
    /\ pc[r] = "idle"
    /\ \A q \in Requests : q < r => pc[q] # "idle"

\* Variant of RequestCallback reusing one McpServer for every request.
RequestCallbackSharedServer(r) ==
    /\ Arrives(r)
    /\ mcpOf' = [mcpOf EXCEPT ![r] = 1]
    /\ transportOf' = [transportOf EXCEPT ![r] = nextObj + 2]
    /\ nextObj' = nextObj + 2
    /\ connected' = [connected EXCEPT ![r] = @ \cup {<<1, nextObj + 2>>}]
    /\ pc' = [pc EXCEPT ![r] = "connect"]
    /\ UNCHANGED <<hostname, startVars, args, res, caught, escaped, toolVars>>

\* Lines 91-97: the callback of createServer runs for a request: a new
\* McpServer (createMcpServer, lines 45-85), a new transport, and
\* mcp.connect(transport), which is awaited.
RequestCallback(r) ==
    /\ Arrives(r)
    /\ mcpOf' = [mcpOf EXCEPT ![r] = nextObj + 1]
    /\ transportOf' = [transportOf EXCEPT ![r] = nextObj + 2]
    /\ nextObj' = nextObj + 2
    /\ connected' = [connected EXCEPT ![r] = @ \cup {<<nextObj + 1, nextObj + 2>>}]
    /\ pc' = [pc EXCEPT ![r] = "connect"]
    /\ UNCHANGED <<hostname, startVars, args, res, caught, escaped, toolVars>>

\* Lines 93-96, 99-104: createMcpServer() or the transport constructor
\* throws; the catch block runs in the same step.
ConstructorThrows(r) ==
    /\ Arrives(r)
    /\ \E made \in {0, 1} :
          /\ mcpOf' = [mcpOf EXCEPT ![r] = IF made = 1 THEN nextObj + 1 ELSE 0]
          /\ nextObj' = nextObj + made
    /\ caught' = [caught EXCEPT ![r] = InfraError]
    /\ CatchBlock(r, res[r])
    /\ pc' = [pc EXCEPT ![r] = "done"]
    /\ UNCHANGED <<hostname, startVars, args, transportOf, connected, toolVars>>

\* Line 97 rejects: the catch block runs.
ConnectRejects(r) ==
    /\ pc[r] = "connect"
    /\ caught' = [caught EXCEPT ![r] = InfraError]
    /\ CatchBlock(r, res[r])
    /\ pc' = [pc EXCEPT ![r] = "done"]
    /\ UNCHANGED <<hostname, startVars, args, mcpOf, transportOf, connected, nextObj,
                   toolVars>>

\* Lines 97-98: connect resolved; transport.handleRequest(req, res) is
\* called and awaited.
ConnectResolves(r) ==
    /\ pc[r] = "connect"
    /\ pc' = [pc EXCEPT ![r] = "handleRequest"]
    /\ UNCHANGED <<hostname, startVars, args, mcpOf, transportOf, connected, res, caught,
                   escaped, nextObj, toolVars>>

\* Line 98 rejects before the transport has written anything.
HandleRequestRejects(r) ==
    /\ pc[r] = "handleRequest"
    /\ caught' = [caught EXCEPT ![r] = InfraError]
    /\ CatchBlock(r, res[r])
    /\ pc' = [pc EXCEPT ![r] = "done"]
    /\ UNCHANGED <<hostname, startVars, args, mcpOf, transportOf, connected, nextObj,
                   toolVars>>

\* Line 98: the transport reads a request that is no tool call; the SDK
\* answers it.
TransportReplies(r) ==
    /\ pc[r] = "handleRequest"
    /\ args' = [args EXCEPT ![r] = [kind |-> "other", title |-> ""]]
    /\ res' = [res EXCEPT ![r] = [headersSent |-> TRUE, status |-> 200,
                                  body |-> [protocol |-> "reply"],
                                  writes |-> @.writes + 1]]
    /\ pc' = [pc EXCEPT ![r] = "done"]
    /\ UNCHANGED <<hostname, startVars, mcpOf, transportOf, connected, caught,
                   escaped, nextObj, toolVars>>

\* The ways client.sendClaudeSessionMessage(msg) can end for its caller
\* (lines 28-32; the call is not awaited): it returns with the message
\* delivered, it throws e, or it returns with the delivery still in flight.
SendOutcomes == {[how |-> "ok", error |-> NoError], [how |-> "async", error |-> NoError]}
                    \cup {[how |-> "throw", error |-> e] : e \in Thrown}

DeliveryAfter(o) ==
    CASE o.how = "ok" -> "delivered"
      [] o.how = "async" -> "inflight"
      [] OTHER -> "failed"

\* Variant of Handler that sends the summary message twice.
HandlerSendingTwice(r) ==
    /\ pc[r] = "handleRequest"
    /\ \E t \in Titles : args' = [args EXCEPT ![r] = [kind |-> "call", title |-> t]]
    /\ \E o \in SendOutcomes :
          /\ sent' = [sent EXCEPT ![r] =
                        @ \o << SummaryMessage(hostname, ArgsTitle(r)'),
                                SummaryMessage(hostname, ArgsTitle(r)') >>]
          /\ sendResult' = [sendResult EXCEPT ![r] = o]
          /\ delivery' = [delivery EXCEPT ![r] = DeliveryAfter(o)]
          /\ response' = [response EXCEPT ![r] =
                            IF o.how = "throw"
                            THEN [success |-> FALSE, error |-> JsString(o.error)]
                            ELSE [success |-> TRUE, error |-> ""]]
    /\ pc' = [pc EXCEPT ![r] = "toolCallback"]
    /\ UNCHANGED <<hostname, startVars, mcpOf, transportOf, connected, res, caught,
                   escaped, nextObj, toolResult>>

\* Lines 57-58 and 23-38: the transport reads a change_title call with some
\* title and dispatches it to the tool callback, which calls
\* handler(args.title).  handler builds the
\* prefixed title, calls client.sendClaudeSessionMessage once inside try and
\* returns {success: true}, or {success: false, error: String(error)} from
\* its catch.  The tool callback then awaits the returned promise.
Handler(r) ==
    /\ pc[r] = "handleRequest"
    /\ \E t \in Titles : args' = [args EXCEPT ![r] = [kind |-> "call", title |-> t]]
    /\ \E o \in SendOutcomes :
          /\ sent' = [sent EXCEPT ![r] =
                        Append(@, SummaryMessage(hostname, ArgsTitle(r)'))]
          /\ sendResult' = [sendResult EXCEPT ![r] = o]
          /\ delivery' = [delivery EXCEPT ![r] = DeliveryAfter(o)]
          /\ response' = [response EXCEPT ![r] =
                            IF o.how = "throw"
                            THEN [success |-> FALSE, error |-> JsString(o.error)]
                            ELSE [success |-> TRUE, error |-> ""]]
    /\ pc' = [pc EXCEPT ![r] = "toolCallback"]
    /\ UNCHANGED <<hostname, startVars, mcpOf, transportOf, connected, res, caught,
                   escaped, nextObj, toolResult>>

\* A send that returned with the delivery in flight settles later, on its
\* own: delivered, or failed (a rejection nobody awaits).
DeliverySettles(r) ==
    /\ delivery[r] = "inflight"
    /\ \E d \in {"delivered", "failed"} : delivery' = [delivery EXCEPT ![r] = d]
    /\ UNCHANGED <<hostname, startVars, reqVars, response, toolResult, sent, sendResult>>

\* Lines 59-81: after `await handler(args.title)` the tool callback maps
\* the response to the tool result and returns it to the SDK.
ToolCallback(r) ==
    /\ pc[r] = "toolCallback"
    /\ toolResult' = [toolResult EXCEPT ![r] = ToolResult(ArgsTitle(r), response[r])]
    /\ pc' = [pc EXCEPT ![r] = "respond"]
    /\ UNCHANGED <<hostname, startVars, args, mcpOf, transportOf, connected, res, caught,
                   escaped, nextObj, response, sent, sendResult, delivery>>

\* Line 98, continued: the transport writes the tool result as the HTTP
\* response (status 200) and handleRequest resolves.
Respond(r) ==
    /\ pc[r] = "respond"
    /\ res' = [res EXCEPT ![r] = [headersSent |-> TRUE, status |-> 200,
                                  body |-> toolResult[r], writes |-> @.writes + 1]]
    /\ pc' = [pc EXCEPT ![r] = "done"]
    /\ UNCHANGED <<hostname, startVars, args, mcpOf, transportOf, connected, caught,
                   escaped, nextObj, toolVars>>

\* Line 98, continued: the transport has written the response headers and
\* then rejects (the stream breaks while the body is written); the catch
\* block runs on a response whose headers are sent.
RespondBreaks(r) ==
    /\ pc[r] = "respond"
    /\ caught' = [caught EXCEPT ![r] = InfraError]
    /\ CatchBlock(r, [headersSent |-> TRUE, status |-> 200,
                      body |-> [protocol |-> "partial"], writes |-> res[r].writes + 1])
    /\ pc' = [pc EXCEPT ![r] = "done"]
    /\ UNCHANGED <<hostname, startVars, args, mcpOf, transportOf, connected, nextObj,
                   toolVars>>

Next ==
    \/ StartCall
    \/ BindOk
    \/ BindFail
    \/ ListenCallback
    \/ StartReturn
    \/ Stop
    \/ \E r \in Requests : RequestCallback(r)
    \/ \E r \in Requests : ConstructorThrows(r)
    \/ \E r \in Requests : ConnectRejects(r)
    \/ \E r \in Requests : ConnectResolves(r)
    \/ \E r \in Requests : HandleRequestRejects(r)
    \/ \E r \in Requests : TransportReplies(r)
    \/ \E r \in Requests : Handler(r)
    \/ \E r \in Requests : DeliverySettles(r)
    \/ \E r \in Requests : ToolCallback(r)
    \/ \E r \in Requests : Respond(r)
    \/ \E r \in Requests : RespondBreaks(r)

Spec == Init /\ [][Next]_vars

\* ------------------------------------------------------------ properties
Called(r) == toolResult[r] # Null
Text(r) == toolResult[r].content[1].text
Differ(r, q) == /\ r # q
                /\ args[r].kind = "call" /\ args[q].kind = "call"
                /\ args[r].title # args[q].title

\* C1: a change_title call whose summary message is delivered returns one
\* text block `Successfully changed chat title to: "<title>"` with isError
\* false, and has called sendClaudeSessionMessage exactly once, with a
\* 'summary' message whose summary is "[<hostname>] <title>".
C1_SuccessfulCall ==
    \A r \in Requests :
        (Called(r) /\ delivery[r] = "delivered") =>
            /\ toolResult[r] =
                 [content |-> << [type |-> "text",
                                  text |-> "Successfully changed chat title to: \""
                                           \o args[r].title \o "\""] >>,
                  isError |-> FALSE]
            /\ Len(sent[r]) = 1
            /\ sent[r][1].type = "summary"
            /\ sent[r][1].summary = "[" \o hostname \o "] " \o args[r].title

C1_Witness ==
    \E r \in Requests :
        /\ pc[r] = "done" /\ Called(r) /\ delivery[r] = "delivered"
        /\ res[r].body = toolResult[r]
        /\ args[r].title = "Refactor \"plan\""

\* The failure text the tool must return for each value the send may throw.
ExpectedFailureText(e) ==
    CASE e = [kind |-> "Error", message |-> "socket closed"] ->
           "Failed to change chat title: Error: socket closed"
      [] e = [kind |-> "string", message |-> ""] ->
           "Failed to change chat title: Unknown error"

\* C2: when sendClaudeSessionMessage throws during a change_title call, the
\* tool returns one text block `Failed to change chat title: <String(error)>`
\* (`Unknown error` when that string is empty) with isError true; the thrown
\* value never reaches the request-level catch nor leaves the callback, and
\* the request ends with status 200 carrying that tool result, never 500.
C2_SendThrows ==
    \A r \in Requests :
        sendResult[r].how = "throw" =>
            /\ caught[r] # sendResult[r].error
            /\ ~escaped[r]
            /\ res[r].status # 500
            /\ Called(r) =>
                 toolResult[r] =
                   [content |-> << [type |-> "text",
                                    text |-> ExpectedFailureText(sendResult[r].error)] >>,
                    isError |-> TRUE]
            /\ (pc[r] = "done" /\ caught[r] = NoError) =>
                 (res[r].status = 200 /\ res[r].body = toolResult[r])

C2_Witness ==
    \E r, q \in Requests :
        /\ pc[r] = "done" /\ sendResult[r].error = [kind |-> "string", message |-> ""]
        /\ res[r].body = toolResult[r]
        /\ pc[q] = "done" /\ sendResult[q].error.kind = "Error"
        /\ res[q].body = toolResult[q]

\* C3: the change_title response is produced only after the delivery of the
\* summary message has completed or failed, and a failed delivery is never
\* answered with a success response.
C3_ResponseAfterDelivery ==
    \A r \in Requests :
        Called(r) =>
            /\ delivery[r] \in {"delivered", "failed"}
            /\ (delivery[r] = "failed" => toolResult[r].isError)

\* C4: with concurrent change_title requests of different titles, a success
\* response quotes the title of its own request, every summary message
\* carries the title of the request that caused it, and no response or
\* summary carries the title of another request.
C4_NoCrossContamination ==
    \A r \in Requests :
        /\ (Called(r) /\ ~toolResult[r].isError) =>
              Text(r) = "Successfully changed chat title to: \"" \o args[r].title \o "\""
        /\ \A i \in 1..Len(sent[r]) :
              sent[r][i].summary = "[" \o hostname \o "] " \o args[r].title
        /\ \A q \in Requests :
              Differ(r, q) =>
                 /\ Called(r) =>
                      Text(r) # "Successfully changed chat title to: \""
                                \o args[q].title \o "\""
                 /\ \A i \in 1..Len(sent[r]) :
                      sent[r][i].summary # "[" \o hostname \o "] " \o args[q].title

C4_Witness ==
    \E r, q \in Requests :
        /\ Differ(r, q)
        /\ pc[r] = "respond" /\ pc[q] = "respond"
        /\ ~toolResult[r].isError /\ ~toolResult[q].isError

\* C5: whenever the listener fails to bind, the promise startHappyServer
\* returned is rejected and the failure is raised nowhere else.
C5_BindFailureRejects ==
    server.state = "failed" => (startPromise = "rejected" /\ ~uncaught)

\* The characters of url between its last ":" and a trailing "/".
PortDigits(url) ==
    LET last == CHOOSE i \in 1..Len(url) :
                    url[i] = ":" /\ \A j \in (i + 1)..Len(url) : url[j] # ":"
        end == IF url[Len(url)] = "/" THEN Len(url) - 1 ELSE Len(url)
    IN SubSeq(url, last + 1, end)

\* C6: startHappyServer returns its handle only in a step taken after the
\* listen callback has run; the port written in url is the port the server
\* is bound to and is not zero, and toolNames is <<"change_title">>.
C6_ResolvesAfterBound ==
    /\ [](handle # Null =>
            /\ listenCb
            /\ startPromise = "resolved"
            /\ server.port # 0
            /\ ParseDecimal(PortDigits(handle.url)) = server.port
            /\ handle.toolNames = <<"change_title">>)
    /\ [][handle' # handle => (listenCb /\ server.state = "listening")]_vars

C6_Witness ==
    /\ handle # Null
    /\ server.state = "listening"
    /\ server.port = 65535

LoopbackPrefix ==
    <<"h","t","t","p",":","/","/","1","2","7",".","0",".","0",".","1",":">>

\* C7 as stated: url is "http://127.0.0.1:" followed by the decimal form of
\* the bound port, with nothing before or after it.
C7_UrlIsBareOrigin ==
    handle # Null => handle.url = LoopbackPrefix \o Decimal(server.port)

\* C7: url is "http://127.0.0.1:" followed by the decimal form of the bound
\* port and then the root path "/" that URL.toString() writes; nothing
\* precedes it and nothing follows the "/".
C7_UrlIsOriginWithRootPath ==
    handle # Null => handle.url = LoopbackPrefix \o Decimal(server.port) \o <<"/">>

C7_Witness ==
    /\ handle # Null
    /\ server.port = 1024
    /\ Len(handle.url) = 22

Lifecycle ==
    { <<"created", "binding">>, <<"binding", "listening">>, <<"binding", "failed">>,
      <<"listening", "closed">> }

\* C8: the server only moves created -> (binding) -> listening -> closed;
\* once stop has been called the server is closed and its port released, a
\* stop call raises nothing, a closed server never listens again, and the
\* listener is released by a stop call only.
C8_Lifecycle ==
    /\ [](stopped => (server.state = "closed" /\ ~osPortHeld /\ ~uncaught))
    /\ [][server'.state # server.state =>
             <<server.state, server'.state>> \in Lifecycle]_vars
    /\ [][server.state = "closed" => server'.state = "closed" /\ ~osPortHeld']_vars
    /\ [][(osPortHeld /\ ~osPortHeld') => (handle # Null /\ ~stopped /\ stopped')]_vars

C8_Witness ==
    /\ stopped
    /\ server.state = "closed"
    /\ \E r \in Requests : pc[r] = "done" /\ caught[r] # NoError
    /\ \E r \in Requests : pc[r] = "respond"

Started(r) == pc[r] # "idle" /\ transportOf[r] # 0

\* C9: every request has its own McpServer and its own transport: no
\* instance belongs to two requests, and the only pair a request connects
\* is its own McpServer with its own transport.
C9_OnePairPerRequest ==
    \A r \in Requests :
        /\ Started(r) =>
              /\ mcpOf[r] # 0
              /\ mcpOf[r] # transportOf[r]
              /\ connected[r] = {<<mcpOf[r], transportOf[r]>>}
        /\ ~Started(r) => connected[r] = {}
        /\ \A q \in Requests :
              (q # r /\ Started(q) /\ Started(r)) =>
                 {mcpOf[r], transportOf[r]} \cap {mcpOf[q], transportOf[q]} = {}

C9_Witness ==
    \E r, q \in Requests :
        /\ r # q
        /\ Started(r) /\ pc[r] = "toolCallback"
        /\ Started(q) /\ pc[q] = "connect"

\* C10: an exception raised outside the tool body never leaves the request
\* callback; the request is then answered 500 with an empty body when no
\* header had been sent and is left as the transport wrote it otherwise, and
\* no response has its head written twice.
C10_RequestBoundary ==
    \A r \in Requests :
        /\ ~escaped[r]
        /\ res[r].writes <= 1
        /\ (pc[r] = "done" /\ caught[r] # NoError) =>
              \/ res[r] = [headersSent |-> TRUE, status |-> 500, body |-> << >>,
                           writes |-> 1]
              \/ /\ Called(r)
                 /\ res[r] = [headersSent |-> TRUE, status |-> 200,
                              body |-> [protocol |-> "partial"], writes |-> 1]
        /\ (pc[r] = "done" /\ caught[r] # NoError /\ ~Called(r)) => res[r].status = 500

C10_Witness ==
    \E r, q \in Requests :
        /\ pc[r] = "done" /\ caught[r] = InfraError /\ res[r].status = 500
        /\ pc[q] = "done" /\ caught[q] = InfraError /\ res[q].status = 200

====
